---- MODULE Spec2Model ----
(***************************************************************************)
(* Model of the stack-merge engine of flame (src/process.rs):              *)
(* process_and_merge_callstacks, StackTrie::insert, format_rank_str and    *)
(* traverse_with_all_stack; of the collector (src/collector.rs):           *)
(* fetch_and_save_urls; and of the fetch-then-merge command                *)
(* (src/command.rs): fetch_process_and_merge.                              *)
(*                                                                         *)
(* Strings are sequences of tokens: each separator the code joins, splits  *)
(* or searches on (";", " ", "@", "|", "/", "-", the decimal digits and    *)
(* the marker "lto_priv") is a token of its own, so that format!, join,    *)
(* split, contains and to_string are computed, not assumed.                *)
(***************************************************************************)
EXTENDS Integers, Sequences, FiniteSets, TLC

\* ------------------------------------------------------------------ bounds
MaxStacks == 3
MaxRankId == 2
MaxFmtRun == 3
FmtHigh   == 9

\* ------------------------------------------------------- string primitives
Digits == <<"0", "1", "2", "3", "4", "5", "6", "7", "8", "9">>

RECURSIVE to_string(_)
to_string(n) ==
    IF n < 10 THEN <<Digits[n + 1]>>
    ELSE to_string(n \div 10) \o <<Digits[(n % 10) + 1]>>

RECURSIVE join(_, _)
join(strs, sep) ==
    IF Len(strs) = 0 THEN <<>>
    ELSE IF Len(strs) = 1 THEN strs[1]
    ELSE strs[1] \o <<sep>> \o join(Tail(strs), sep)

\* str::split: the pieces between the separators, one (empty) piece for "".
RECURSIVE split(_, _)
split(str, sep) ==
    IF \A i \in 1..Len(str) : str[i] # sep THEN <<str>>
    ELSE LET k == CHOOSE i \in 1..Len(str) :
                      str[i] = sep /\ \A j \in 1..(i - 1) : str[j] # sep
         IN  <<SubSeq(str, 1, k - 1)>> \o split(SubSeq(str, k + 1, Len(str)), sep)

contains(str, tok) == \E i \in 1..Len(str) : str[i] = tok

reverse(s) == [i \in 1..Len(s) |-> s[Len(s) + 1 - i]]

\* Iteration of a BTreeSet<u32>: ascending.
RECURSIVE iter(_)
iter(S) ==
    IF S = {} THEN <<>>
    ELSE LET m == CHOOSE x \in S : \A y \in S : x <= y
         IN  <<m>> \o iter(S \ {m})

\* ------------------------------------------------------------------ frames
CFrame(func, file, lineno) ==
    [kind |-> "CFrame", func |-> func, file |-> file, lineno |-> lineno]

PyFrame(func, file, lineno) ==
    [kind |-> "PyFrame", func |-> func, file |-> file, lineno |-> lineno]

FrameMain == CFrame(<<"main">>, <<"a.c">>, 1)
FrameFoo  == PyFrame(<<"foo">>, <<"b.c">>, 5)
FrameLto  == CFrame(<<"bar.", "lto_priv", ".0">>, <<"c.c">>, 7)

Frames == {FrameMain, FrameFoo, FrameLto}

\* format!("{} ({}:{})", frame.func, frame.file, frame.lineno)
FrameKey(frame) ==
    frame.func \o <<" ", "(">> \o frame.file \o <<":">>
               \o to_string(frame.lineno) \o <<")">>

\* -------------------------------------------------------------------- trie
TrieNode_new == [is_end_of_stack |-> FALSE, ranks |-> {}]

\* A trie is a function from the paths (key sequences) of its nodes; <<>> is
\* the root.
\* The trie with a universe that misses the last declared id.
StackTrie_new_short(all_ranks) ==
    [root |-> [p \in {<<>>} |-> TrieNode_new],
     all_ranks |-> {all_ranks[i] : i \in 1..(Len(all_ranks) - 1)}]

StackTrie_new(all_ranks) ==
    [root |-> [p \in {<<>>} |-> TrieNode_new],
     all_ranks |-> {all_ranks[i] : i \in 1..Len(all_ranks)}]

\* add_rank that replaces the set instead of adding to it.
add_rank_replace(node, rank) == [node EXCEPT !.ranks = {rank}]

add_rank(node, rank) == [node EXCEPT !.ranks = @ \cup {rank}]

\* children.entry(frame).or_insert_with(TrieNode::new)
entry_or_insert(root, p) ==
    IF p \in DOMAIN root THEN root
    ELSE [q \in DOMAIN root \cup {p} |-> IF q = p THEN TrieNode_new ELSE root[q]]

\* insert that records the worker at the terminal node only.
RECURSIVE insert_from_terminal_only(_, _, _, _, _)
insert_from_terminal_only(root, at, stack, i, rank) ==
    IF i > Len(stack) \/ contains(stack[i], "lto_priv")
    THEN [root EXCEPT ![at] =
              add_rank([@ EXCEPT !.is_end_of_stack = TRUE], rank)]
    ELSE LET child == Append(at, stack[i])
             r1    == entry_or_insert(root, child)
         IN  insert_from_terminal_only(r1, child, stack, i + 1, rank)

\* insert that skips a marker frame and goes on with the next frame.
RECURSIVE insert_from_skip(_, _, _, _, _)
insert_from_skip(root, at, stack, i, rank) ==
    IF i > Len(stack)
    THEN [root EXCEPT ![at] =
              add_rank([@ EXCEPT !.is_end_of_stack = TRUE], rank)]
    ELSE IF contains(stack[i], "lto_priv")
    THEN insert_from_skip(root, at, stack, i + 1, rank)
    ELSE LET child == Append(at, stack[i])
             r1    == entry_or_insert(root, child)
             r2    == [r1 EXCEPT ![child] = add_rank(@, rank)]
         IN  insert_from_skip(r2, child, stack, i + 1, rank)

\* The loop of insert from frame i on, standing at node `at`.
RECURSIVE insert_from(_, _, _, _, _)
insert_from(root, at, stack, i, rank) ==
    IF i > Len(stack) \/ contains(stack[i], "lto_priv")
    THEN [root EXCEPT ![at] =
              add_rank([@ EXCEPT !.is_end_of_stack = TRUE], rank)]
    ELSE LET child == Append(at, stack[i])
             r1    == entry_or_insert(root, child)
             r2    == [r1 EXCEPT ![child] = add_rank(@, rank)]
         IN  insert_from(r2, child, stack, i + 1, rank)

insert(t, stack, rank) ==
    [t EXCEPT !.root = insert_from(t.root, <<>>, stack, 1, rank)]

\* ---------------------------------------------------------- rank rendering
\* The inner while loop with "larger" in place of "next": every id extends
\* the run.
RECURSIVE run_end_any_larger(_, _)
run_end_any_larger(ranks, i) ==
    IF i + 1 <= Len(ranks) /\ ranks[i + 1] > ranks[i]
    THEN run_end_any_larger(ranks, i + 1)
    ELSE i

\* The inner while loop: the index of the last element of the run at i.
RECURSIVE run_end(_, _)
run_end(ranks, i) ==
    IF i + 1 <= Len(ranks) /\ ranks[i + 1] = ranks[i] + 1
    THEN run_end(ranks, i + 1)
    ELSE i

RECURSIVE ranges_from(_, _)
ranges_from(ranks, i) ==
    IF i > Len(ranks) THEN <<>>
    ELSE LET j         == run_end(ranks, i)
             start     == ranks[i]
             end       == ranks[j]
             range_str == IF start = end THEN to_string(start)
                          ELSE to_string(start) \o <<"-">> \o to_string(end)
         IN  <<range_str>> \o ranges_from(ranks, j + 1)

inner_format(ranks) ==
    IF Len(ranks) = 0 THEN <<>>
    ELSE join(ranges_from(ranks, 1), "/")

format_rank_str(t, ranks) ==
    LET ranks_vec        == iter(ranks)
        leak_ranks       == iter(t.all_ranks \ ranks)
        has_stack_ranks  == inner_format(ranks_vec)
        leak_stack_ranks == inner_format(leak_ranks)
    IN  <<"@">> \o has_stack_ranks \o <<"|">> \o leak_stack_ranks

\* --------------------------------------------------------------- traversal
Children(root, node) ==
    {p[Len(p)] : p \in {q \in DOMAIN root :
                          Len(q) = Len(node) + 1 /\ SubSeq(q, 1, Len(node)) = node}}

Orders(S) == {f \in [1..Cardinality(S) -> S] :
                 \A i, j \in 1..Cardinality(S) : i # j => f[i] # f[j]}

\* A HashMap iterates in an order that its RandomState hasher fixes afresh
\* in every process: traverse_with_all_stack is the set of the results it
\* can return, one per order of the children of every node.
RECURSIVE traverse_with_all_stack(_, _, _)
RECURSIVE traverse_children(_, _, _, _, _)
traverse_children(t, node, path, order, i) ==
    IF i > Len(order) THEN {<<>>}
    ELSE LET frame      == order[i]
             child      == Append(node, frame)
             rank_str   == format_rank_str(t, t.root[child].ranks)
             own        == IF t.root[child].is_end_of_stack
                           THEN <<[path |-> <<join(path, ";"), frame>>,
                                   rank_str |-> rank_str]>>
                           ELSE <<>>
             child_path == Append(path, frame \o rank_str)
         IN  {own \o sub \o rest :
                  sub  \in traverse_with_all_stack(t, child, child_path),
                  rest \in traverse_children(t, node, path, order, i + 1)}

traverse_with_all_stack(t, node, path) ==
    UNION {traverse_children(t, node, path, order, 1) :
               order \in Orders(Children(t.root, node))}

\* writeln!(output_file, "{} {} 1", path.join(";"), rank_str)
OutputLine(entry) ==
    join(entry.path, ";") \o <<" ">> \o entry.rank_str \o <<" ", "1">>

OutputLines(result) == [i \in 1..Len(result) |-> OutputLine(result[i])]

\* ------------------------------------------------------------------- state
VARIABLES
    json_data,       \* the input: [valid, frames], frames leaf-first per worker
    rank_list,       \* the caller's ordered worker ids
    pc,              \* position in process_and_merge_callstacks
    prepare_stacks,  \* the ";"-joined key strings of the non-empty stacks
    index,           \* the loop variable of the insertion loop
    trie,            \* the StackTrie
    inserted,        \* history of the trie.insert calls: [pos, stack, rank]
    output_dir,      \* TRUE once create_dir_all has succeeded
    output_file,     \* TRUE once File::create has succeeded
    out,             \* the lines written to the output file
    ret,             \* the value returned, "" while running
    fmt_ranks,       \* inner_format on its own: the set rendered
    fmt_str,         \*   its rendering
    fmt_pc,          \*   "idle", "call" or "done"
    urls,            \* the collector: the number of URLs requested
    tasks,           \*   the request futures: [stage, body, error]
    data_list,       \*   the bodies kept by the loop over the results
    data_from,       \*   history: the URL each kept body came from
    fetch_pc,        \*   "idle", "save"/"stack" (polling), "collected"/"batch", "done"
    fetch_ret,       \*   the value returned, "" while running
    saved            \*   TRUE once the url_stack file is written

vars == <<json_data, rank_list, pc, prepare_stacks, index, trie, inserted,
          output_dir, output_file, out, ret, fmt_ranks, fmt_str, fmt_pc,
          urls, tasks, data_list, data_from, fetch_pc, fetch_ret, saved>>

fetch_vars == <<urls, tasks, data_list, data_from, fetch_pc, fetch_ret, saved>>

merge_vars == <<json_data, rank_list, pc, prepare_stacks, index, trie,
                inserted, output_dir, output_file, out, ret>>

fmt_vars == <<fmt_ranks, fmt_str, fmt_pc>>

\* ------------------------------------------------------------------ inputs
\* The stacks a worker can report, leaf first: no frame at all, main or foo
\* alone, foo called from main, the marker frame as the outermost frame, and
\* the marker frame between main and foo.
Stacks ==
    { <<>>,
      <<FrameMain>>,
      <<FrameFoo>>,
      <<FrameFoo, FrameMain>>,
      <<FrameLto>>,
      <<FrameFoo, FrameLto, FrameMain>> }

Batches == UNION {[1..n -> Stacks] : n \in 0..MaxStacks}

RankIds == 0..MaxRankId

Ascending(r) == \A i, j \in DOMAIN r : i < j => r[i] < r[j]

\* The declared worker ids, in the caller's order: each worker is declared
\* once, the ids listed upwards or downwards.
RankLists ==
    UNION {{r \in [1..n -> RankIds] : Ascending(r) \/ Ascending(reverse(r))} :
               n \in 0..Cardinality(RankIds)}

Malformed == [valid |-> FALSE, frames |-> <<>>]

JsonInputs == {[valid |-> TRUE, frames |-> b] : b \in Batches} \cup {Malformed}

\* ------------------------------------------- process_and_merge_callstacks
\* The reversed (root-first) stacks.
OutStacks(frames) == [i \in 1..Len(frames) |-> reverse(frames[i])]

StackString(stack) ==
    join([i \in 1..Len(stack) |-> FrameKey(stack[i])], ";")

\* The positions of the stacks that the "Prepare stack strings" loop keeps.
RECURSIVE KeptFrom(_, _)
KeptFrom(out_stacks, i) ==
    IF i > Len(out_stacks) THEN <<>>
    ELSE IF Len(out_stacks[i]) # 0
         THEN <<i>> \o KeptFrom(out_stacks, i + 1)
         ELSE KeptFrom(out_stacks, i + 1)

Kept(frames) == KeptFrom(OutStacks(frames), 1)

PrepareStacksOf(frames) ==
    LET kept == Kept(frames)
    IN  [k \in 1..Len(kept) |-> StackString(OutStacks(frames)[kept[k]])]

NoTrie == StackTrie_new(<<>>)

Init ==
    /\ json_data \in JsonInputs
    /\ rank_list \in RankLists
    /\ pc = "parse"
    /\ prepare_stacks = <<>>
    /\ index = 0
    /\ trie = NoTrie
    /\ inserted = <<>>
    /\ output_dir = FALSE
    /\ output_file = FALSE
    /\ out = <<>>
    /\ ret = ""
    /\ fmt_ranks = {}
    /\ fmt_str = <<>>
    /\ fmt_pc = "idle"
    /\ urls = 0
    /\ tasks = <<>>
    /\ data_list = <<>>
    /\ data_from = <<>>
    /\ fetch_pc = "idle"
    /\ fetch_ret = ""
    /\ saved = FALSE

\* serde_json::from_str(json_data)? fails.
DecodeError ==
    /\ pc = "parse"
    /\ ~json_data.valid
    /\ ret' = "Err(decode)"
    /\ pc' = "done"
    /\ UNCHANGED <<json_data, rank_list, prepare_stacks, index, trie, inserted,
                   output_dir, output_file, out, fmt_vars, fetch_vars>>

\* prepare_stacks.len() > rank_list.len()
CardinalityError ==
    /\ pc = "parse"
    /\ json_data.valid
    /\ Len(PrepareStacksOf(json_data.frames)) > Len(rank_list)
    /\ prepare_stacks' = PrepareStacksOf(json_data.frames)
    /\ trie' = StackTrie_new(rank_list)
    /\ ret' = "Err(Number of stacks exceeds number of ranks)"
    /\ pc' = "done"
    /\ UNCHANGED <<json_data, rank_list, index, inserted, output_dir,
                   output_file, out, fmt_vars, fetch_vars>>

PrepareStacks ==
    /\ pc = "parse"
    /\ json_data.valid
    /\ Len(PrepareStacksOf(json_data.frames)) <= Len(rank_list)
    /\ prepare_stacks' = PrepareStacksOf(json_data.frames)
    /\ trie' = StackTrie_new(rank_list)
    /\ index' = 1
    /\ pc' = "insert"
    /\ UNCHANGED <<json_data, rank_list, inserted, output_dir, output_file,
                   out, ret, fmt_vars, fetch_vars>>

\* One iteration of the insertion loop that takes the ids from the end of
\* rank_list.
InsertStack_from_end ==
    /\ pc = "insert"
    /\ index <= Len(prepare_stacks)
    /\ LET stack_frames == split(prepare_stacks[index], ";")
           rank         == rank_list[Len(rank_list) + 1 - index]
       IN  /\ trie' = insert(trie, stack_frames, rank)
           /\ inserted' = Append(inserted,
                   [pos   |-> Kept(json_data.frames)[index],
                    stack |-> stack_frames,
                    rank  |-> rank])
    /\ index' = index + 1
    /\ UNCHANGED <<json_data, rank_list, pc, prepare_stacks, output_dir,
                   output_file, out, ret, fmt_vars, fetch_vars>>

\* One iteration of the insertion loop.
InsertStack ==
    /\ pc = "insert"
    /\ index <= Len(prepare_stacks)
    /\ LET stack_frames == split(prepare_stacks[index], ";")
           rank         == rank_list[index]
       IN  /\ trie' = insert(trie, stack_frames, rank)
           /\ inserted' = Append(inserted,
                   [pos   |-> Kept(json_data.frames)[index],
                    stack |-> stack_frames,
                    rank  |-> rank])
    /\ index' = index + 1
    /\ UNCHANGED <<json_data, rank_list, pc, prepare_stacks, output_dir,
                   output_file, out, ret, fmt_vars, fetch_vars>>

\* create_dir_all and File::create succeed.
CreateOutput ==
    /\ pc = "insert"
    /\ index > Len(prepare_stacks)
    /\ output_dir' = TRUE
    /\ output_file' = TRUE
    /\ pc' = "write"
    /\ UNCHANGED <<json_data, rank_list, prepare_stacks, index, trie, inserted,
                   out, ret, fmt_vars, fetch_vars>>

\* create_dir_all(&output_dir)? fails.
CreateDirError ==
    /\ pc = "insert"
    /\ index > Len(prepare_stacks)
    /\ ret' = "Err(io)"
    /\ pc' = "done"
    /\ UNCHANGED <<json_data, rank_list, prepare_stacks, index, trie, inserted,
                   output_dir, output_file, out, fmt_vars, fetch_vars>>

\* File::create(&output_path)? fails in the directory just created.
CreateFileError ==
    /\ pc = "insert"
    /\ index > Len(prepare_stacks)
    /\ output_dir' = TRUE
    /\ ret' = "Err(io)"
    /\ pc' = "done"
    /\ UNCHANGED <<json_data, rank_list, prepare_stacks, index, trie, inserted,
                   output_file, out, fmt_vars, fetch_vars>>

\* The writing loop runs to its end.
WriteOutput ==
    /\ pc = "write"
    /\ \E result \in traverse_with_all_stack(trie, <<>>, <<>>) :
           out' = OutputLines(result)
    /\ ret' = "Ok"
    /\ pc' = "done"
    /\ UNCHANGED <<json_data, rank_list, prepare_stacks, index, trie, inserted,
                   output_dir, output_file, fmt_vars, fetch_vars>>

\* writeln!(..)? fails at line k + 1 of the file.
WriteError ==
    /\ pc = "write"
    /\ \E result \in traverse_with_all_stack(trie, <<>>, <<>>) :
       \E k \in 0..(Len(result) - 1) :
           out' = SubSeq(OutputLines(result), 1, k)
    /\ ret' = "Err(io)"
    /\ pc' = "done"
    /\ UNCHANGED <<json_data, rank_list, prepare_stacks, index, trie, inserted,
                   output_dir, output_file, fmt_vars, fetch_vars>>

Next ==
    \/ DecodeError
    \/ CardinalityError
    \/ PrepareStacks
    \/ InsertStack
    \/ CreateOutput
    \/ CreateDirError
    \/ CreateFileError
    \/ WriteOutput
    \/ WriteError

Spec == Init /\ [][Next]_vars

\* ------------------------------------------------- inner_format on its own
\* One-digit ids and ids around the step from one digit to two.
FmtIds == (0..MaxFmtRun) \cup (FmtHigh..(FmtHigh + MaxFmtRun))

InitFmt ==
    /\ json_data = Malformed
    /\ rank_list = <<>>
    /\ pc = "done"
    /\ prepare_stacks = <<>>
    /\ index = 0
    /\ trie = NoTrie
    /\ inserted = <<>>
    /\ output_dir = FALSE
    /\ output_file = FALSE
    /\ out = <<>>
    /\ ret = ""
    /\ fmt_ranks \in SUBSET FmtIds
    /\ fmt_str = <<>>
    /\ fmt_pc = "call"
    /\ urls = 0
    /\ tasks = <<>>
    /\ data_list = <<>>
    /\ data_from = <<>>
    /\ fetch_pc = "idle"
    /\ fetch_ret = ""
    /\ saved = FALSE

CallInnerFormat ==
    /\ fmt_pc = "call"
    /\ fmt_str' = inner_format(iter(fmt_ranks))
    /\ fmt_pc' = "done"
    /\ UNCHANGED <<merge_vars, fmt_ranks, fetch_vars>>

NextFmt == CallInnerFormat

SpecFmt == InitFmt /\ [][NextFmt]_vars

\* ------------------------------------------------------------ the collector
\* What a worker's endpoint can answer: a stack, JSON that is no stack, or
\* text that is no JSON.
StackBody(frames) == [json |-> TRUE, stack |-> TRUE, frames |-> frames]

NoStackBody == [json |-> TRUE, stack |-> FALSE, frames |-> <<>>]

NoJsonBody == [json |-> FALSE, stack |-> FALSE, frames |-> <<>>]

Bodies == {StackBody(<<FrameMain>>), StackBody(<<FrameFoo, FrameMain>>),
           NoStackBody, NoJsonBody}

\* A request future: where it stands, the body received and the error of an
\* Err result ("" when none).
NewTask == [stage |-> "send", body |-> NoJsonBody, error |-> ""]

MergeIdle ==
    /\ json_data = Malformed
    /\ prepare_stacks = <<>>
    /\ index = 0
    /\ trie = NoTrie
    /\ inserted = <<>>
    /\ output_dir = FALSE
    /\ output_file = FALSE
    /\ out = <<>>
    /\ ret = ""
    /\ fmt_ranks = {}
    /\ fmt_str = <<>>
    /\ fmt_pc = "idle"

\* fetch_and_save_urls(urls): one future per URL, none polled yet.
InitFetch ==
    /\ MergeIdle
    /\ rank_list = <<>>
    /\ pc = "done"
    /\ urls \in 0..MaxStacks
    /\ tasks = [i \in 1..urls |-> NewTask]
    /\ data_list = <<>>
    /\ data_from = <<>>
    /\ fetch_pc = "save"
    /\ fetch_ret = ""
    /\ saved = FALSE

Polling == fetch_pc \in {"save", "stack"}

\* client.get(&url).send().await succeeds.
SendDone(i) ==
    /\ Polling
    /\ tasks[i].stage = "send"
    /\ tasks' = [tasks EXCEPT ![i].stage = "text"]
    /\ UNCHANGED <<merge_vars, fmt_vars, urls, data_list, data_from, fetch_pc,
                   fetch_ret, saved>>

\* client.get(&url).send().await? fails.
SendError(i) ==
    /\ Polling
    /\ tasks[i].stage = "send"
    /\ tasks' = [tasks EXCEPT ![i].stage = "err", ![i].error = "send"]
    /\ UNCHANGED <<merge_vars, fmt_vars, urls, data_list, data_from, fetch_pc,
                   fetch_ret, saved>>

\* res.text().await succeeds and serde_json::from_str decides the result.
TextDone(i) ==
    /\ Polling
    /\ tasks[i].stage = "text"
    /\ \E body \in Bodies :
           tasks' = [tasks EXCEPT ![i] =
                        [stage |-> IF body.json THEN "ok" ELSE "err",
                         body  |-> body,
                         error |-> IF body.json THEN "" ELSE "json"]]
    /\ UNCHANGED <<merge_vars, fmt_vars, urls, data_list, data_from, fetch_pc,
                   fetch_ret, saved>>

\* res.text().await? fails.
TextError(i) ==
    /\ Polling
    /\ tasks[i].stage = "text"
    /\ tasks' = [tasks EXCEPT ![i].stage = "err", ![i].error = "text"]
    /\ UNCHANGED <<merge_vars, fmt_vars, urls, data_list, data_from, fetch_pc,
                   fetch_ret, saved>>

\* The loop over the results that stops at the first Err.
RECURSIVE KeptResults_until_error(_, _)
KeptResults_until_error(results, i) ==
    IF i > Len(results) THEN <<>>
    ELSE IF results[i].stage = "ok"
         THEN <<i>> \o KeptResults_until_error(results, i + 1)
         ELSE <<>>

\* The loop over the results: the positions of the Ok results, in order.
RECURSIVE KeptResults(_, _)
KeptResults(results, i) ==
    IF i > Len(results) THEN <<>>
    ELSE IF results[i].stage = "ok"
         THEN <<i>> \o KeptResults(results, i + 1)
         ELSE KeptResults(results, i + 1)

\* join_all(tasks).await returns once every future has finished.
JoinAllReady == \A i \in 1..urls : tasks[i].stage \in {"ok", "err"}

\* join_all returns and the loop over the results builds data_list.
CollectResults ==
    /\ Polling
    /\ JoinAllReady
    /\ data_from' = KeptResults(tasks, 1)
    /\ data_list' = [k \in 1..Len(KeptResults(tasks, 1)) |->
                         tasks[KeptResults(tasks, 1)[k]].body]
    /\ fetch_pc' = IF fetch_pc = "save" THEN "collected" ELSE "batch"
    /\ UNCHANGED <<merge_vars, fmt_vars, urls, tasks, fetch_ret, saved>>

\* The directory and the file are created and the batch is written.
SaveUrls ==
    /\ fetch_pc = "collected"
    /\ saved' = TRUE
    /\ fetch_ret' = "Ok"
    /\ fetch_pc' = "done"
    /\ UNCHANGED <<merge_vars, fmt_vars, urls, tasks, data_list, data_from>>

\* create_dir_all fails: panic!.
SaveDirPanic ==
    /\ fetch_pc = "collected"
    /\ fetch_ret' = "panic"
    /\ fetch_pc' = "done"
    /\ UNCHANGED <<merge_vars, fmt_vars, urls, tasks, data_list, data_from,
                   saved>>

\* File::create(..)? or write_all(..)? fails.
SaveFileError ==
    /\ fetch_pc = "collected"
    /\ fetch_ret' = "Err(io)"
    /\ fetch_pc' = "done"
    /\ UNCHANGED <<merge_vars, fmt_vars, urls, tasks, data_list, data_from,
                   saved>>

NextFetch ==
    \/ \E i \in 1..urls : SendDone(i)
    \/ \E i \in 1..urls : SendError(i)
    \/ \E i \in 1..urls : TextDone(i)
    \/ \E i \in 1..urls : TextError(i)
    \/ CollectResults
    \/ SaveUrls
    \/ SaveDirPanic
    \/ SaveFileError

SpecFetch == InitFetch /\ [][NextFetch]_vars

\* -------------------------------------------------- fetch_process_and_merge
\* The file maps "rank<N>" keys to addresses: every entry gives a URL, and
\* every key whose suffix parses gives a rank; the file may end with one
\* entry whose key does not parse.
InitE2E ==
    /\ MergeIdle
    /\ rank_list \in RankLists
    /\ pc = "fetch"
    /\ urls \in {Len(rank_list), Len(rank_list) + 1}
    /\ tasks = <<>>
    /\ data_list = <<>>
    /\ data_from = <<>>
    /\ fetch_pc = "idle"
    /\ fetch_ret = ""
    /\ saved = FALSE

\* urls.is_empty()
NoUrlsError ==
    /\ pc = "fetch"
    /\ fetch_pc = "idle"
    /\ urls = 0
    /\ ret' = "Err(No valid URLs found in the file)"
    /\ pc' = "done"
    /\ UNCHANGED <<json_data, rank_list, prepare_stacks, index, trie, inserted,
                   output_dir, output_file, out, fmt_vars, fetch_vars>>

\* fetch_stack_from_urls(urls) is called: one request per URL.
StartFetch ==
    /\ pc = "fetch"
    /\ fetch_pc = "idle"
    /\ urls > 0
    /\ tasks' = [i \in 1..urls |-> NewTask]
    /\ fetch_pc' = "stack"
    /\ UNCHANGED <<merge_vars, fmt_vars, urls, data_list, data_from, fetch_ret,
                   saved>>

\* The JSON text of the collected batch as process_and_merge_callstacks
\* decodes it: an array of stacks, or no Vec<Vec<Frame>> at all.
BatchJson(bodies) ==
    IF \A k \in 1..Len(bodies) : bodies[k].stack
    THEN [valid |-> TRUE, frames |-> [k \in 1..Len(bodies) |-> bodies[k].frames]]
    ELSE Malformed

\* fetch_stack_from_urls returns the batch of the successful requests and
\* process_and_merge_callstacks(&json_data, rank_list, output) is called.
ReturnBatch ==
    /\ pc = "fetch"
    /\ fetch_pc = "batch"
    /\ json_data' = BatchJson(data_list)
    /\ pc' = "parse"
    /\ fetch_ret' = "Ok"
    /\ fetch_pc' = "done"
    /\ UNCHANGED <<rank_list, prepare_stacks, index, trie, inserted,
                   output_dir, output_file, out, ret, fmt_vars, urls, tasks,
                   data_list, data_from, saved>>

NextE2E ==
    \/ NoUrlsError
    \/ StartFetch
    \/ \E i \in 1..urls : SendDone(i)
    \/ \E i \in 1..urls : SendError(i)
    \/ \E i \in 1..urls : TextDone(i)
    \/ \E i \in 1..urls : TextError(i)
    \/ CollectResults
    \/ ReturnBatch
    \/ DecodeError
    \/ CardinalityError
    \/ PrepareStacks
    \/ InsertStack
    \/ CreateOutput
    \/ CreateDirError
    \/ CreateFileError
    \/ WriteOutput
    \/ WriteError

SpecE2E == InitE2E /\ [][NextE2E]_vars

\* ============================================================== properties
Parent(p) == SubSeq(p, 1, Len(p) - 1)

Nodes == DOMAIN trie.root

\* The insertion loop has run to its end.
InsertionOver ==
    \/ pc = "insert" /\ index > Len(prepare_stacks)
    \/ pc = "write"
    \/ pc = "done" /\ ret \in {"Ok", "Err(io)"}

Returned == pc = "done"

IsErr(r) == r \in {"Err(decode)", "Err(io)",
                   "Err(Number of stacks exceeds number of ranks)"}

\* ------------------------------------------------ reading a rendering back
DigitVal(d) == CHOOSE v \in 0..9 : Digits[v + 1] = d

RECURSIVE parse_u32(_)
parse_u32(str) ==
    IF Len(str) = 1 THEN DigitVal(str[1])
    ELSE parse_u32(SubSeq(str, 1, Len(str) - 1)) * 10 + DigitVal(str[Len(str)])

RangeStart(piece) == parse_u32(split(piece, "-")[1])

RangeEnd(piece) ==
    LET parts == split(piece, "-") IN parse_u32(parts[Len(parts)])

Pieces(str) == IF str = <<>> THEN <<>> ELSE split(str, "/")

\* The set a range-compressed string stands for.
Expand(str) ==
    UNION {RangeStart(Pieces(str)[k])..RangeEnd(Pieces(str)[k]) :
               k \in 1..Len(Pieces(str))}

\* The grammar of the rendering: "start-end" only for runs of two or more,
\* runs ascending and maximal (a gap between one run and the next).
WellFormed(str) ==
    LET ps == Pieces(str)
    IN  /\ \A k \in 1..Len(ps) :
               /\ Len(split(ps[k], "-")) \in {1, 2}
               /\ Len(split(ps[k], "-")) = 2 => RangeStart(ps[k]) < RangeEnd(ps[k])
        /\ \A k \in 1..(Len(ps) - 1) : RangeEnd(ps[k]) + 1 < RangeStart(ps[k + 1])

\* "@<present>|<leaked>": the two renderings of an annotation.
PresentOf(rank_str) == Tail(split(rank_str, "|")[1])

LeakedOf(rank_str) == split(rank_str, "|")[2]

\* ----------------------------------------------------------------------- C1
\* C1: the output is deterministic: every run on the same batch and worker-id
\* list writes the same sequence of lines, so the lines written are the only
\* sequence the traversal can return for this trie.
C1_DeterministicOutput ==
    (Returned /\ ret = "Ok") =>
        \A result \in traverse_with_all_stack(trie, <<>>, <<>>) :
            OutputLines(result) = out

\* ----------------------------------------------------------------------- C2
\* C2: positional attribution: the (non-empty) stack at position i of the
\* input array is inserted under the i-th id of rank_list, whatever the
\* stacks at the other positions are.
C2_PositionalAttribution ==
    InsertionOver =>
        \A i \in 1..Len(json_data.frames) :
            json_data.frames[i] # <<>> =>
                \E k \in 1..Len(inserted) :
                    /\ inserted[k].pos = i
                    /\ i \in DOMAIN rank_list
                    /\ inserted[k].rank = rank_list[i]

\* ----------------------------------------------------------------------- C3
\* C3: for every node N of the trie, the root included, and every child C of
\* N, ranks(C) is a subset of ranks(N).
C3_RanksShrinkDescending ==
    \A p \in Nodes \ {<<>>} :
        trie.root[p].ranks \subseteq trie.root[Parent(p)].ranks

\* ----------------------------------------------------------------------- C4
RECURSIVE InsertAll(_, _, _)
InsertAll(t, calls, order) ==
    IF order = <<>> THEN t
    ELSE InsertAll(insert(t, calls[Head(order)].stack, calls[Head(order)].rank),
                   calls, Tail(order))

\* C4: the trie (nodes, rank sets, isStackEnd flags) built by the insert calls
\* made so far is the same for every order of these calls.
C4_InsertOrderIrrelevant ==
    pc # "parse" =>
        \A order \in Orders(1..Len(inserted)) :
            InsertAll(StackTrie_new(rank_list), inserted, order).root = trie.root

\* Three different stacks have been inserted and share a node.
C4_Witness ==
    /\ InsertionOver
    /\ Len(inserted) = 3
    /\ \A i, j \in 1..3 : i # j => inserted[i].stack # inserted[j].stack
    /\ \E p \in Nodes : Cardinality(trie.root[p].ranks) >= 2

\* ----------------------------------------------------------------------- C5
\* C5: every node's rank set is within the universe of declared ids, and the
\* present and leaked sets rendered for the node are disjoint and together
\* make up the universe.
C5_PresentLeakedPartition ==
    \A p \in Nodes :
        LET rank_str == format_rank_str(trie, trie.root[p].ranks)
            present  == Expand(PresentOf(rank_str))
            leaked   == Expand(LeakedOf(rank_str))
        IN  /\ trie.root[p].ranks \subseteq trie.all_ranks
            /\ present \cap leaked = {}
            /\ present \cup leaked = trie.all_ranks

\* A node reached by some but not all of three declared workers.
C5_Witness ==
    /\ InsertionOver
    /\ Cardinality(trie.all_ranks) = 3
    /\ \E p \in Nodes \ {<<>>} :
           /\ trie.root[p].ranks # {}
           /\ trie.all_ranks \ trie.root[p].ranks # {}

\* ----------------------------------------------------------------------- C6
\* C6: range compression round-trips: expanding the rendering of a set gives
\* back the set, the rendering follows the grammar (runs joined by "/",
\* "start-end" for runs of two or more, bare numbers for single ids, the empty
\* string for the empty set), and no other set has the same rendering.
C6_RangeCompressionRoundTrip ==
    fmt_pc = "done" =>
        /\ Expand(fmt_str) = fmt_ranks
        /\ WellFormed(fmt_str)
        /\ (fmt_ranks = {}) = (fmt_str = <<>>)
        /\ \A T \in SUBSET FmtIds :
               T # fmt_ranks => inner_format(iter(T)) # fmt_str

\* A set with a run, a single id, a gap and a two-digit id has been rendered.
C6_Witness ==
    /\ fmt_pc = "done"
    /\ fmt_ranks = {0, 1, 3, FmtHigh, FmtHigh + 1, FmtHigh + 3}
    /\ Len(Pieces(fmt_str)) = 4
    /\ Pieces(fmt_str)[1] = <<"0", "-", "1">>
    /\ Pieces(fmt_str)[2] = <<"3">>

\* ----------------------------------------------------------------------- C7
\* C7: when the parsed input holds more stacks than there are declared worker
\* ids, the merge returns an error, inserts nothing and creates no file.
C7_CardinalityError ==
    (json_data.valid /\ Len(json_data.frames) > Len(rank_list)) =>
        /\ inserted = <<>>
        /\ ~output_file
        /\ Returned => IsErr(ret)

\* ----------------------------------------------------------------------- C8
\* C8: with zero usable stacks or zero declared worker ids the merge fails,
\* and it creates neither the output directory nor the output file.
C8_EmptyInputError ==
    (json_data.valid /\ (Kept(json_data.frames) = <<>> \/ rank_list = <<>>)) =>
        /\ ~output_dir
        /\ ~output_file
        /\ Returned => IsErr(ret)

\* ----------------------------------------------------------------------- C9
\* The label "<canonicalKey>@<present>|<leaked>" of node p.
Label(p) == p[Len(p)] \o format_rank_str(trie, trie.root[p].ranks)

\* The line of section 4.4 for the terminal node p.
SpecLine(p) ==
    join([k \in 1..Len(p) |-> Label(SubSeq(p, 1, k))], ";")
        \o <<" ">> \o format_rank_str(trie, trie.root[p].ranks) \o <<" ", "1">>

EndNodes == {p \in Nodes \ {<<>>} : trie.root[p].is_end_of_stack}

\* C9: for every node flagged isStackEnd exactly one line is written: the
\* ";"-joined labels from the first frame to the node itself, each with its
\* own annotation, a space, the node's annotation, and the weight 1.
C9_OutputLineFormat ==
    (Returned /\ ret = "Ok") =>
        /\ Len(out) = Cardinality(EndNodes)
        /\ \A p \in EndNodes :
               Cardinality({i \in 1..Len(out) : out[i] = SpecLine(p)}) = 1

\* ---------------------------------------------------------------------- C10
\* The fields of a line: "<path> <summary> 1".
LineSummary(line) ==
    LET fields == split(line, " ") IN fields[Len(fields) - 1]

LinePath(line) ==
    LET fields == split(line, " ")
    IN  join(SubSeq(fields, 1, Len(fields) - 2), " ")

\* The keys of the frames of a line: its labels without their annotations,
\* an empty leading field left out.
LineKeys(line) ==
    LET labels == SelectSeq(split(LinePath(line), ";"), LAMBDA l : l # <<>>)
    IN  [k \in 1..Len(labels) |-> split(labels[k], "@")[1]]

ScenarioB ==
    /\ json_data = [valid |-> TRUE,
                    frames |-> << <<FrameFoo, FrameMain>>,
                                  <<FrameFoo, FrameMain>>,
                                  <<FrameMain>> >>]
    /\ rank_list = <<0, 1, 2>>

MainPath == <<FrameKey(FrameMain)>>

MainFooPath == <<FrameKey(FrameMain), FrameKey(FrameFoo)>>

SummariesOf(keys) ==
    {LineSummary(out[i]) : i \in {j \in 1..Len(out) : LineKeys(out[j]) = keys}}

\* C10 as stated: in scenario B the output has two lines, the line of the
\* path main annotated @2|0-1 and the line of main;foo annotated @0-1|2.
C10_ScenarioB_AsStated ==
    (ScenarioB /\ Returned /\ ret = "Ok") =>
        /\ Len(out) = 2
        /\ SummariesOf(MainPath) = {<<"@", "2", "|", "0", "-", "1">>}
        /\ SummariesOf(MainFooPath) = {<<"@", "0", "-", "1", "|", "2">>}

\* C10 amended: in scenario B the output has two lines, the line of the path
\* main annotated @0-2| (all three workers pass through main) and the line of
\* main;foo annotated @0-1|2.
C10_ScenarioB ==
    (ScenarioB /\ Returned /\ ret = "Ok") =>
        /\ Len(out) = 2
        /\ SummariesOf(MainPath) = {<<"@", "0", "-", "2", "|">>}
        /\ SummariesOf(MainFooPath) = {<<"@", "0", "-", "1", "|", "2">>}

C10_Witness == ScenarioB /\ Returned /\ ret = "Ok" /\ Len(out) = 2

\* ---------------------------------------------------------------------- C11
\* C11: when a worker of the batch reports an empty stack, after the merge
\* the root is flagged isStackEnd, the root's rank set holds that worker's id
\* and the output has a line for the worker's frame-less record.
C11_ScenarioC_EmptyStack ==
    (json_data.valid /\ Returned /\ ret = "Ok") =>
        \A i \in 1..Len(json_data.frames) :
            json_data.frames[i] = <<>> =>
                /\ trie.root[<<>>].is_end_of_stack
                /\ i \in DOMAIN rank_list
                /\ rank_list[i] \in trie.root[<<>>].ranks
                /\ \E k \in 1..Len(out) : LineKeys(out[k]) = <<>>

\* ---------------------------------------------------------------------- C12
\* The keys of a stack, root first.
KeysOf(stack) == [k \in 1..Len(stack) |-> FrameKey(reverse(stack)[k])]

\* The index of the first key that holds the marker, 0 when there is none.
MarkerAt(keys) ==
    IF \E k \in 1..Len(keys) : contains(keys[k], "lto_priv")
    THEN CHOOSE k \in 1..Len(keys) :
             /\ contains(keys[k], "lto_priv")
             /\ \A j \in 1..(k - 1) : ~contains(keys[j], "lto_priv")
    ELSE 0

\* The keys before the marker: the node at which a stack of the batch ends.
BeforeMarker(keys) ==
    IF MarkerAt(keys) = 0 THEN keys ELSE SubSeq(keys, 1, MarkerAt(keys) - 1)

TerminalOf(stack) == BeforeMarker(KeysOf(stack))

Terminals == {TerminalOf(json_data.frames[i]) : i \in 1..Len(json_data.frames)}

\* C12: once the stacks are inserted, a node is flagged isStackEnd if and
\* only if the stack of some worker of the batch, empty stacks included, ends
\* exactly at that node (the root for an empty stack).
C12_StackEndIffTerminal ==
    (json_data.valid /\ InsertionOver) =>
        \A p \in Nodes \cup Terminals :
            (p \in Nodes /\ trie.root[p].is_end_of_stack) <=> p \in Terminals

\* ---------------------------------------------------------------------- C13
\* The annotations of what the writing loop shows for the trie: one per node.
NodeAnnotations == {format_rank_str(trie, trie.root[p].ranks) : p \in Nodes}

\* The annotations read back from a written line: the summary field and the
\* annotation of every label that has one.
LineAnnotations(line) ==
    LET labels == split(LinePath(line), ";")
    IN  {LineSummary(line)} \cup
        {<<"@">> \o split(labels[k], "@")[2] :
             k \in {j \in 1..Len(labels) : Len(split(labels[j], "@")) = 2}}

UnusedIds(n) == {rank_list[j] : j \in (n + 1)..Len(rank_list)}

C15_OutputFileNotEmpty ==
    (json_data.valid /\ Len(json_data.frames) >= 1 /\ Returned /\ ret = "Ok") =>
        /\ output_dir
        /\ output_file
        /\ out # <<>>

\* ---------------------------------------------------------------------- C16
PrefixesOf(keys) == {SubSeq(keys, 1, j) : j \in 1..Len(keys)}

RanksAt(root, p) == IF p \in DOMAIN root THEN root[p].ranks ELSE {}

EndAt(root, p) == IF p \in DOMAIN root THEN root[p].is_end_of_stack ELSE FALSE

\* What one insert call of a stack with a marker key does to the trie.
MarkerTruncation(before, after, call) ==
    LET pre == BeforeMarker(call.stack)
    IN  /\ DOMAIN after = DOMAIN before \cup PrefixesOf(pre)
        /\ \A p \in DOMAIN after \ {<<>>} :
               RanksAt(after, p) =
                   IF p \in PrefixesOf(pre) THEN RanksAt(before, p) \cup {call.rank}
                   ELSE RanksAt(before, p)
        /\ \A p \in DOMAIN after :
               EndAt(after, p) = (p = pre \/ EndAt(before, p))

OkUrls == {i \in 1..urls : tasks[i].stage = "ok"}

\* C14: under every interleaving of the requests the batch is built only
\* after all of them have finished, a failed request does not make the
\* collection fail, and the batch holds exactly the responses of the
\* successful requests, in request order.
C14_BarrierAndTolerance ==
    /\ (fetch_pc \notin {"idle", "save", "stack"} \/ data_list # <<>>) =>
           /\ JoinAllReady
           /\ Len(data_list) = Cardinality(OkUrls)
           /\ data_from = iter(OkUrls)
           /\ \A k \in 1..Len(data_list) : data_list[k] = tasks[data_from[k]].body
    /\ fetch_ret \in {"", "Ok", "Err(io)", "panic"}
    /\ (fetch_ret # "" /\ fetch_pc = "done") => JoinAllReady

\* Three requests, the second failed, and the batch of the two others saved.
C14_Witness ==
    /\ fetch_pc = "done"
    /\ fetch_ret = "Ok"
    /\ saved
    /\ urls = 3
    /\ tasks[2].stage = "err"
    /\ data_from = <<1, 3>>
    /\ data_list[1] # data_list[2]

\* ---------------------------------------------------------------------- C17
FailedUrls == {i \in 1..Len(tasks) : tasks[i].stage = "err"}

\* C17: when some requests fail and the others succeed, every stack that
\* reaches the trie is inserted under the id of the worker it was fetched
\* from, and the id of a failed worker is in no node's rank set.
C17_AttributionUnderFetchFailure ==
    (fetch_pc = "done" /\ FailedUrls # {}) =>
        /\ \A k \in 1..Len(inserted) :
               LET from == data_from[inserted[k].pos]
               IN  /\ from \in DOMAIN rank_list
                   /\ inserted[k].rank = rank_list[from]
        /\ \A i \in FailedUrls \cap DOMAIN rank_list :
               \A p \in Nodes : rank_list[i] \notin trie.root[p].ranks

====
